---- MODULE Spec2Model ----
(***************************************************************************)
(* Model of dannystewart/configs: src/configs/config_file.py (ConfigFile)  *)
(* and src/configs/main.py (CodeConfigs).                                  *)
(*                                                                         *)
(* A text is a sequence of tokens.  The tokens that the code looks for     *)
(* ("Config version:", "(auto-managed)", the newline, blanks) are tokens   *)
(* of their own; every other token stands for a run of other characters.   *)
(* A file is a record [exists, text]; a path is a record [parent, name].   *)
(***************************************************************************)
EXTENDS Integers, Sequences, FiniteSets, TLC

\* --------------------------------------------------------------- tokens
NL == "\n"
CV == "Config version:"
AM == "(auto-managed)"
AMBare == "auto-managed"
SP == " "
\* Python's None where a str is expected (a token no text contains)
NoneStr == <<"<None>">>
Whitespace == {SP, NL}

\* Python truthiness of an Optional[str]
Truthy(s) == s # NoneStr /\ s # <<>>

\* --------------------------------------------------------------- str helpers
\* index of the first token of s that is in toks, 0 when there is none
Find(s, toks) ==
    IF \E i \in 1..Len(s) : s[i] \in toks
    THEN CHOOSE i \in 1..Len(s) : s[i] \in toks /\ \A j \in 1..(i - 1) : s[j] \notin toks
    ELSE 0

\* sub in line, for the two substrings the code tests
Contains(line, sub) ==
    IF sub = AMBare
    THEN \E i \in 1..Len(line) : line[i] \in {AM, AMBare}
    ELSE \E i \in 1..Len(line) : line[i] = sub

RECURSIVE splitlines(_)
splitlines(s) ==
    IF s = <<>> THEN <<>>
    ELSE LET i == Find(s, {NL})
         IN IF i = 0 THEN <<s>>
            ELSE <<SubSeq(s, 1, i - 1)>> \o splitlines(SubSeq(s, i + 1, Len(s)))

RECURSIVE split(_, _)
split(s, sep) ==
    LET i == Find(s, {sep})
    IN IF i = 0 THEN <<s>>
       ELSE <<SubSeq(s, 1, i - 1)>> \o split(SubSeq(s, i + 1, Len(s)), sep)

RECURSIVE join(_)
join(lines) ==
    IF lines = <<>> THEN <<>>
    ELSE IF Len(lines) = 1 THEN lines[1]
    ELSE lines[1] \o <<NL>> \o join(Tail(lines))

RECURSIVE lstrip(_)
lstrip(s) == IF s # <<>> /\ s[1] \in Whitespace THEN lstrip(Tail(s)) ELSE s

RECURSIVE rstrip(_)
rstrip(s) ==
    IF s # <<>> /\ s[Len(s)] \in Whitespace THEN rstrip(SubSeq(s, 1, Len(s) - 1)) ELSE s

strip(s) == rstrip(lstrip(s))

\* a line containing both "Config version:" and "auto-managed"
IsMarkerLine(line) == Contains(line, CV) /\ Contains(line, AMBare)

\* --------------------------------------------------------------- ConfigFile
\* a file name is <<stem, suffix>>; Path(name).suffix is its second part
Suffix(filename) == filename[2]

repo_root == "repo_root"

local_path(name) == [parent |-> repo_root, name |-> name]

repo_path(name) == [parent |-> repo_root, name |-> local_path(name).name]

ConfigFile(name) ==
    [name |-> name, local_path |-> local_path(name), repo_path |-> repo_path(name)]

CONFIGS == <<ConfigFile(<<"ruff", ".toml">>), ConfigFile(<<"mypy", ".ini">>)>>

VERSION_COMMENT_FORMAT ==
    [s \in {".ini", ".json", ".py", ".toml", ".yaml", ".yml"} |->
        CASE s = ".ini" -> << <<"; ">>, <<>> >>
          [] s = ".json" -> << <<"// ">>, <<>> >>
          [] OTHER -> << <<"# ">>, <<>> >>]

Names == {CONFIGS[i].name : i \in 1..Len(CONFIGS)}
Paths == {CONFIGS[i].local_path : i \in 1..Len(CONFIGS)}
             \cup {CONFIGS[i].repo_path : i \in 1..Len(CONFIGS)}

NoFile == [exists |-> FALSE, text |-> <<>>]
File(text) == [exists |-> TRUE, text |-> text]

VARIABLES
    fs,                \* the file system: path -> file
    remote,            \* what the remote answers for each name: [ok, text]
    version_info,      \* version_info.current, NoneStr when not installed
    skip_confirm,      \* the -y flag of the current run
    auto_confirm,      \* self.auto_confirm
    pc,                \* "start", "running", "done"
    idx,               \* position of the for loop of update_configs
    updated_configs, failed_configs, unchanged_configs,
    log,               \* the calls of the current run on the collaborators, in order
    fs0,               \* the file system when the current run started
    prev,              \* what the previous run was
    p_pc, p_content, p_filename, p_stamped, p_version  \* the stamping round trip alone

vars == <<fs, remote, version_info, skip_confirm, auto_confirm, pc, idx, updated_configs,
          failed_configs, unchanged_configs, log, fs0, prev,
          p_pc, p_content, p_filename, p_stamped, p_version>>

mainVars == <<fs, remote, skip_confirm, auto_confirm, pc, idx, updated_configs,
              failed_configs, unchanged_configs, log, fs0, prev>>
pureVars == <<p_pc, p_content, p_filename, p_stamped, p_version>>

\* --------------------------------------------------------------- stamping
TargetVersion == IF Truthy(version_info) THEN version_info ELSE <<"dev">>

\* lines 159-163 for a given version_str
FormatVersionLine(filename, version_str) ==
    LET suffix == Suffix(filename)
        fmt == IF suffix \in DOMAIN VERSION_COMMENT_FORMAT
               THEN VERSION_COMMENT_FORMAT[suffix]
               ELSE << <<"# ">>, <<>> >>
    IN fmt[1] \o <<CV, SP>> \o version_str \o <<SP, AM>> \o fmt[2] \o <<NL>>

VersionLine(filename) == FormatVersionLine(filename, TargetVersion)

add_version_to_content(content, filename) ==
    LET version_line == VersionLine(filename)
        lines == splitlines(content)
    IN IF \E i \in 1..Len(lines) : IsMarkerLine(lines[i])
       THEN LET i == CHOOSE k \in 1..Len(lines) :
                        /\ IsMarkerLine(lines[k])
                        /\ \A j \in 1..(k - 1) : ~IsMarkerLine(lines[j])
            IN join([lines EXCEPT ![i] = strip(version_line)])
       ELSE version_line \o <<NL>> \o content

\* extract_version without the final strip()
extract_version_NoStrip(content) ==
    LET lines == splitlines(content)
    IN IF \E i \in 1..Len(lines) : IsMarkerLine(lines[i])
       THEN LET i == CHOOSE k \in 1..Len(lines) :
                        /\ IsMarkerLine(lines[k])
                        /\ \A j \in 1..(k - 1) : ~IsMarkerLine(lines[j])
            IN split(split(lines[i], CV)[2], AM)[1]
       ELSE NoneStr

\* lines 180-187: the version of the first marker line of a text
extract_version(content) ==
    LET lines == splitlines(content)
    IN IF \E i \in 1..Len(lines) : IsMarkerLine(lines[i])
       THEN LET i == CHOOSE k \in 1..Len(lines) :
                        /\ IsMarkerLine(lines[k])
                        /\ \A j \in 1..(k - 1) : ~IsMarkerLine(lines[j])
            IN strip(split(split(lines[i], CV)[2], AM)[1])
       ELSE NoneStr

extract_version_from_file(f, file_path) ==
    IF ~f[file_path].exists THEN NoneStr ELSE extract_version(f[file_path].text)

NonMarkerLines(content) == SelectSeq(splitlines(content), LAMBDA line : ~IsMarkerLine(line))

is_content_identical(content1, content2) ==
    NonMarkerLines(content1) = NonMarkerLines(content2)

\* --------------------------------------------------------------- collaborators
NoPath == [parent |-> "", name |-> <<"", "">>]
Ev(op, name, arg, path, text, answer) ==
    [op |-> op, name |-> name, arg |-> arg, path |-> path, text |-> text, answer |-> answer]
Call(w, op, name) ==
    [w EXCEPT !.log = Append(@, Ev(op, name, "", NoPath, <<>>, FALSE))]

\* Path.write_text
write_text(w, path, text) ==
    [fs |-> [w.fs EXCEPT ![path] = File(text)],
     log |-> Append(w.log, Ev("write_text", path.name, "", path, text, FALSE))]

\* FileManager.copy (dsbase, not part of this repository): the destination gets
\* the source's content; a copy of a file onto itself leaves it as it is
copy(w, src, dst) ==
    [fs |-> [w.fs EXCEPT ![dst] = w.fs[src]],
     log |-> Append(w.log, Ev("copy", dst.name, "", dst, w.fs[src].text, FALSE))]

\* dsbase.shell.confirm_action: the user answers ans
confirm_action(w, name, kind, ans) ==
    [w EXCEPT !.log = Append(@, Ev("confirm_action", name, kind, NoPath, <<>>, ans))]

\* dsbase.text.diff.show_diff
show_diff(w, name) ==
    [w EXCEPT !.log = Append(@, Ev("show_diff", name, "", NoPath, <<>>, FALSE))]

\* requests.get + raise_for_status: None on a RequestException
fetch_remote_content(config) ==
    IF remote[config.name].ok THEN remote[config.name].text ELSE NoneStr

\* --------------------------------------------------------------- CodeConfigs
Ret(w, ret) == [fs |-> w.fs, log |-> w.log, ret |-> ret]

first_time_setup ==
    ~\E i \in 1..Len(CONFIGS) : fs[CONFIGS[i].local_path].exists

get_repo_path_for_config(config_path) ==
    IF \E i \in 1..Len(CONFIGS) : CONFIGS[i].local_path = config_path
    THEN CONFIGS[CHOOSE i \in 1..Len(CONFIGS) :
                    /\ CONFIGS[i].local_path = config_path
                    /\ \A j \in 1..(i - 1) : CONFIGS[j].local_path # config_path].repo_path
    ELSE [parent |-> CONFIGS[1].repo_path.parent, name |-> config_path.name]

needs_update(f, config_path) ==
    IF ~f[config_path].exists THEN TRUE
    ELSE LET config_version == extract_version_from_file(f, config_path)
             current_version == TargetVersion
         IN IF ~Truthy(config_version) \/ config_version # current_version THEN TRUE
            ELSE LET content == f[config_path].text
                     repo == get_repo_path_for_config(config_path)
                 IN IF ~f[repo].exists THEN TRUE
                    ELSE ~is_content_identical(content, f[repo].text)

\* ans is the user's answer, should confirm_action be called
update_existing_config(w0, config, content, auto, ans) ==
    LET w == Call(w0, "update_existing_config", config.name)
        current == w.fs[config.local_path].text
        current_version == extract_version_from_file(w.fs, config.local_path)
        new_version == TargetVersion
    IN IF is_content_identical(current, content)
       THEN IF current_version # new_version
            THEN IF auto
                 THEN Ret(write_text(w, config.local_path, content), TRUE)
                 ELSE LET w1 == confirm_action(w, config.name, "version", ans)
                      IN IF ans
                         THEN Ret(write_text(w1, config.local_path, content), TRUE)
                         ELSE Ret(w1, FALSE)
            ELSE Ret(w, FALSE)
       ELSE LET w1 == IF ~auto THEN show_diff(w, config.name) ELSE w
            IN IF auto
               THEN Ret(write_text(w1, config.local_path, content), TRUE)
               ELSE LET w2 == confirm_action(w1, config.name, "update", ans)
                    IN IF ans
                       THEN Ret(write_text(w2, config.local_path, content), TRUE)
                       ELSE Ret(w2, FALSE)

create_new_config(w0, config, content, auto, ans) ==
    LET w == Call(w0, "create_new_config", config.name)
    IN IF auto
       THEN Ret(write_text(w, config.local_path, content), TRUE)
       ELSE LET w1 == confirm_action(w, config.name, "create", ans)
            IN IF ans
               THEN Ret(write_text(w1, config.local_path, content), TRUE)
               ELSE Ret(w1, FALSE)

\* use_fallback_config that goes on to the copy when the user declines
use_fallback_config_IgnoresAnswer(w0, config, ans) ==
    LET w == Call(w0, "use_fallback_config", config.name)
    IN IF ~w.fs[config.repo_path].exists
       THEN Ret(w, FALSE)
       ELSE IF w.fs[config.local_path].exists
            THEN LET w1 == confirm_action(w, config.name, "fallback", ans)
                 IN Ret(copy(w1, config.repo_path, config.local_path), TRUE)
            ELSE Ret(copy(w, config.repo_path, config.local_path), TRUE)

\* use_fallback_config that displays a diff before its overwrite prompt
use_fallback_config_ShowsDiff(w0, config, ans) ==
    LET w == Call(w0, "use_fallback_config", config.name)
    IN IF ~w.fs[config.repo_path].exists
       THEN Ret(w, FALSE)
       ELSE IF w.fs[config.local_path].exists
            THEN LET w1 == confirm_action(show_diff(w, config.name), config.name,
                                          "fallback", ans)
                 IN IF ~ans
                    THEN Ret(w1, FALSE)
                    ELSE Ret(copy(w1, config.repo_path, config.local_path), TRUE)
            ELSE Ret(copy(w, config.repo_path, config.local_path), TRUE)

\* use_fallback_config without the test that the cached copy exists
use_fallback_config_NoCacheCheck(w0, config, ans) ==
    LET w == Call(w0, "use_fallback_config", config.name)
    IN IF w.fs[config.local_path].exists
       THEN LET w1 == confirm_action(w, config.name, "fallback", ans)
            IN IF ~ans
               THEN Ret(w1, FALSE)
               ELSE Ret(copy(w1, config.repo_path, config.local_path), TRUE)
       ELSE Ret(copy(w, config.repo_path, config.local_path), TRUE)

use_fallback_config(w0, config, ans) ==
    LET w == Call(w0, "use_fallback_config", config.name)
    IN IF ~w.fs[config.repo_path].exists
       THEN Ret(w, FALSE)
       ELSE IF w.fs[config.local_path].exists
            THEN LET w1 == confirm_action(w, config.name, "fallback", ans)
                 IN IF ~ans
                    THEN Ret(w1, FALSE)
                    ELSE Ret(copy(w1, config.repo_path, config.local_path), TRUE)
            ELSE Ret(copy(w, config.repo_path, config.local_path), TRUE)

\* the loop body that puts a config whose fallback failed in no list
ProcessConfig_FallbackUnreported(w0, config, ans) ==
    LET w == Call(w0, "fetch_remote_content", config.name)
        content == fetch_remote_content(config)
    IN IF Truthy(content)
       THEN LET versioned_content == add_version_to_content(content, config.name)
                w1 == write_text(w, config.repo_path, versioned_content)
            IN IF w1.fs[config.local_path].exists
               THEN IF needs_update(w1.fs, config.local_path)
                    THEN LET r == update_existing_config(w1, config, versioned_content,
                                                         auto_confirm, ans)
                         IN Ret(r, IF r.ret THEN "updated" ELSE "unchanged")
                    ELSE Ret(w1, "unchanged")
               ELSE LET r == create_new_config(w1, config, versioned_content,
                                               auto_confirm, ans)
                    IN Ret(r, IF r.ret THEN "updated" ELSE "unchanged")
       ELSE LET r == use_fallback_config(w, config, ans)
            IN Ret(r, IF r.ret THEN "updated" ELSE "none")

\* one iteration of the for loop (lines 89-117): r.ret is the list the name goes to
ProcessConfig(w0, config, ans) ==
    LET w == Call(w0, "fetch_remote_content", config.name)
        content == fetch_remote_content(config)
    IN IF Truthy(content)
       THEN LET versioned_content == add_version_to_content(content, config.name)
                w1 == write_text(w, config.repo_path, versioned_content)
            IN IF w1.fs[config.local_path].exists
               THEN IF needs_update(w1.fs, config.local_path)
                    THEN LET r == update_existing_config(w1, config, versioned_content,
                                                         auto_confirm, ans)
                         IN Ret(r, IF r.ret THEN "updated" ELSE "unchanged")
                    ELSE Ret(w1, "unchanged")
               ELSE LET r == create_new_config(w1, config, versioned_content,
                                               auto_confirm, ans)
                    IN Ret(r, IF r.ret THEN "updated" ELSE "unchanged")
       ELSE LET r == use_fallback_config(w, config, ans)
            IN Ret(r, IF r.ret THEN "updated" ELSE "failed")

\* --------------------------------------------------------------- the inputs
Versions == {NoneStr, <<"1.0">>, <<"1.2">>}

BodyX == <<"x", NL>>
BodyY == <<"y", NL, "z">>
\* a remote file that carries a marker of its own
BodyMarked == <<"# ", CV, SP, "0.9", SP, AM, NL, "x", NL>>
RemoteBodies == {<<>>, BodyX, BodyY, BodyMarked}
Responses == {[ok |-> FALSE, text |-> <<>>]} \cup {[ok |-> TRUE, text |-> t] : t \in RemoteBodies}

\* what a path can hold before the first run: nothing, what an earlier version of
\* the tool left there, or a file of the user's own
InitFiles(path) ==
    {NoFile, File(BodyY)}
        \cup {File(FormatVersionLine(path.name, v) \o <<NL>> \o BodyX) : v \in {<<"dev">>, <<"1.0">>}}

NoPrev == [valid |-> FALSE, clean |-> FALSE, version |-> NoneStr]

PureIdle ==
    /\ p_pc = "idle" /\ p_content = <<>> /\ p_filename = <<"", "">>
    /\ p_stamped = <<>> /\ p_version = <<>>

Init ==
    /\ fs \in {f \in [Paths -> UNION {InitFiles(p) : p \in Paths}] :
                 \A p \in Paths : f[p] \in InitFiles(p)}
    /\ remote \in [Names -> Responses]
    /\ version_info = NoneStr
    /\ skip_confirm = FALSE /\ auto_confirm = FALSE
    /\ pc = "start" /\ idx = 1
    /\ updated_configs = <<>> /\ failed_configs = <<>> /\ unchanged_configs = <<>>
    /\ log = <<>>
    /\ fs0 = fs
    /\ prev = NoPrev
    /\ PureIdle

\* every prompt of the run so far was accepted
AllAccepted == \A i \in 1..Len(log) : log[i].op = "confirm_action" => log[i].answer

\* main() and __init__ up to the call of update_and_log (lines 305-308, 43-62)
main ==
    /\ pc \in {"start", "done"}
    /\ \E y \in BOOLEAN, v \in Versions :
         /\ version_info' = v
         /\ skip_confirm' = y
         /\ auto_confirm' = (y \/ first_time_setup)
    /\ pc' = "running" /\ idx' = 1
    /\ updated_configs' = <<>> /\ failed_configs' = <<>> /\ unchanged_configs' = <<>>
    /\ log' = <<>>
    /\ fs0' = fs
    /\ prev' = IF pc = "done"
               THEN [valid |-> TRUE, clean |-> AllAccepted, version |-> version_info]
               ELSE prev
    /\ UNCHANGED <<fs, remote, pureVars>>

\* update_configs that leaves the loop at the first failed config
update_configs_StopsOnFailure ==
    /\ pc = "running" /\ idx <= Len(CONFIGS)
    /\ \E ans \in BOOLEAN :
         LET config == CONFIGS[idx]
             r == ProcessConfig([fs |-> fs, log |-> log], config, ans)
         IN /\ fs' = r.fs
            /\ log' = r.log
            /\ updated_configs' = IF r.ret = "updated"
                                  THEN Append(updated_configs, config.name)
                                  ELSE updated_configs
            /\ unchanged_configs' = IF r.ret = "unchanged"
                                    THEN Append(unchanged_configs, config.name)
                                    ELSE unchanged_configs
            /\ failed_configs' = IF r.ret = "failed"
                                 THEN Append(failed_configs, config.name)
                                 ELSE failed_configs
            /\ pc' = IF r.ret = "failed" THEN "done" ELSE pc
    /\ idx' = idx + 1
    /\ UNCHANGED <<remote, version_info, skip_confirm, auto_confirm, fs0, prev, pureVars>>

\* one iteration of the for loop of update_configs (lines 89-117)
update_configs ==
    /\ pc = "running" /\ idx <= Len(CONFIGS)
    /\ \E ans \in BOOLEAN :
         LET config == CONFIGS[idx]
             r == ProcessConfig([fs |-> fs, log |-> log], config, ans)
         IN /\ fs' = r.fs
            /\ log' = r.log
            /\ updated_configs' = IF r.ret = "updated"
                                  THEN Append(updated_configs, config.name)
                                  ELSE updated_configs
            /\ unchanged_configs' = IF r.ret = "unchanged"
                                    THEN Append(unchanged_configs, config.name)
                                    ELSE unchanged_configs
            /\ failed_configs' = IF r.ret = "failed"
                                 THEN Append(failed_configs, config.name)
                                 ELSE failed_configs
    /\ idx' = idx + 1
    /\ UNCHANGED <<remote, version_info, skip_confirm, auto_confirm, pc, fs0, prev, pureVars>>

\* the return of update_configs and the summary (lines 119, 64-81)
update_and_log ==
    /\ pc = "running" /\ idx > Len(CONFIGS)
    /\ pc' = "done"
    /\ UNCHANGED <<fs, remote, version_info, skip_confirm, auto_confirm, idx, updated_configs,
                   failed_configs, unchanged_configs, log, fs0, prev, pureVars>>

Next == main \/ update_configs \/ update_and_log

Spec == Init /\ [][Next]_vars

\* --------------------------------------------------------------- stamping alone
\* add_version_to_content and extract_version_from_file on every text of at most
\* MaxLen tokens, every suffix of the table (and one that is not in it) and every
\* version
MaxLen == 5
Alphabet == {NL, CV, AM, AMBare, "x"}
Texts == UNION {[1..n -> Alphabet] : n \in 0..MaxLen}
Filenames == {<<"f", sfx>> : sfx \in DOMAIN VERSION_COMMENT_FORMAT \cup {".cfg"}}
ScratchPath == [parent |-> "tmp", name |-> <<"scratch", "">>]

InitPure ==
    /\ p_pc = "input"
    /\ p_content \in Texts
    /\ p_filename = <<"", "">> /\ p_stamped = <<>> /\ p_version = <<>>
    /\ version_info \in Versions
    /\ fs = [p \in Paths |-> NoFile]
    /\ remote = [n \in Names |-> [ok |-> FALSE, text |-> <<>>]]
    /\ skip_confirm = FALSE /\ auto_confirm = FALSE
    /\ pc = "off" /\ idx = 1
    /\ updated_configs = <<>> /\ failed_configs = <<>> /\ unchanged_configs = <<>>
    /\ log = <<>>
    /\ fs0 = fs
    /\ prev = NoPrev

\* versioned_content = self.add_version_to_content(content, filename)
PureStamp ==
    /\ p_pc = "input"
    /\ \E f \in Filenames :
         /\ p_filename' = f
         /\ p_stamped' = add_version_to_content(p_content, f)
    /\ p_pc' = "stamped"
    /\ UNCHANGED <<mainVars, version_info, p_content, p_version>>

\* the stamped text is written to a file and extract_version_from_file reads it
PureExtract ==
    /\ p_pc = "stamped"
    /\ p_version' = extract_version_from_file([p \in {ScratchPath} |-> File(p_stamped)],
                                               ScratchPath)
    /\ p_pc' = "extracted"
    /\ UNCHANGED <<mainVars, version_info, p_content, p_filename, p_stamped>>

NextPure == PureStamp \/ PureExtract

SpecPure == InitPure /\ [][NextPure]_vars

\* --------------------------------------------------------------- reading a run
InRun == pc \in {"running", "done"}
\* the configs the current run has processed so far
Processed == IF InRun THEN {CONFIGS[i] : i \in 1..(idx - 1)} ELSE {}
InList(list, name) == \E k \in 1..Len(list) : list[k] = name
Called(op, c) == \E k \in 1..Len(log) : log[k].op = op /\ log[k].name = c.name
Prompted(c) == Called("confirm_action", c)
Declined(c) ==
    \E k \in 1..Len(log) :
        log[k].op = "confirm_action" /\ log[k].name = c.name /\ ~log[k].answer
\* a write_text or a copy onto path in the current run
WritesTo(path) ==
    \E k \in 1..Len(log) : log[k].op \in {"write_text", "copy"} /\ log[k].path = path
FetchOk(c) == remote[c.name].ok
\* the remote content of c after stamping
Stamped(c) == add_version_to_content(remote[c.name].text, c.name)
MarkerCount(content) == Len(SelectSeq(splitlines(content), IsMarkerLine))
HasMarker(content) == MarkerCount(content) > 0

\* C1: a managed file whose fetch succeeds and whose stamped remote content is
\* identical to the existing local file is reported unchanged, and the run
\* performs no write to its local_path.
C1_IdenticalNoWrite ==
    \A c \in Processed :
        (FetchOk(c) /\ fs0[c.local_path].exists /\ fs0[c.local_path].text = Stamped(c))
            => InList(unchanged_configs, c.name) /\ ~WritesTo(c.local_path)

\* C2: in batch mode no step of a run calls confirm_action or show_diff, and every
\* branch that would have prompted takes the accepting branch (the file is updated).
C2_BatchNeverPrompts ==
    auto_confirm =>
        /\ \A k \in 1..Len(log) : log[k].op \notin {"confirm_action", "show_diff"}
        /\ \A c \in Processed :
               (\/ Called("create_new_config", c)
                \/ Called("update_existing_config", c)
                       /\ ~(/\ is_content_identical(fs0[c.local_path].text, Stamped(c))
                            /\ extract_version(fs0[c.local_path].text) = TargetVersion)
                \/ Called("use_fallback_config", c)
                       /\ fs0[c.repo_path].exists /\ fs0[c.local_path].exists)
                   => InList(updated_configs, c.name)

\* C3: a run that starts with no managed file present and in which every fetch
\* succeeds takes the create path for every file without a prompt, and ends with
\* every name in the updated list and none in the unchanged or failed list.
C3_FirstRunCreatesAll ==
    (/\ pc = "done"
     /\ \A i \in 1..Len(CONFIGS) : ~fs0[CONFIGS[i].local_path].exists /\ FetchOk(CONFIGS[i]))
        => \A i \in 1..Len(CONFIGS) :
               /\ Called("create_new_config", CONFIGS[i])
               /\ ~Prompted(CONFIGS[i])
               /\ InList(updated_configs, CONFIGS[i].name)
               /\ ~InList(unchanged_configs, CONFIGS[i].name)
               /\ ~InList(failed_configs, CONFIGS[i].name)

\* C4: when a run in which every fetch succeeded and every prompt was accepted is
\* followed by a run with the same remote content and the same package version,
\* the second run reports every managed file unchanged.
\* (remote is the same throughout a behaviour.)
C4_SecondRunUnchanged ==
    (/\ pc = "done" /\ prev.valid /\ prev.clean /\ prev.version = version_info
     /\ \A i \in 1..Len(CONFIGS) : FetchOk(CONFIGS[i]))
        => \A i \in 1..Len(CONFIGS) : InList(unchanged_configs, CONFIGS[i].name)

\* the local file of c differs from the stamped remote content in its marker only
VersionOnly(c) ==
    /\ FetchOk(c) /\ fs0[c.local_path].exists
    /\ fs0[c.local_path].text # Stamped(c)
    /\ is_content_identical(fs0[c.local_path].text, Stamped(c))
\* C5: in batch mode, a local file that differs from the stamped remote content
\* only in its marker is reported updated; afterwards its marker line is the
\* fresh one and its other lines are what they were.
C5_VersionOnlyUpdated ==
    \A c \in Processed :
        (auto_confirm /\ VersionOnly(c))
            => /\ InList(updated_configs, c.name)
               /\ extract_version(fs[c.local_path].text) = TargetVersion
               /\ NonMarkerLines(fs[c.local_path].text) = NonMarkerLines(fs0[c.local_path].text)

\* C6: stamping a content that has no marker line and then extracting the marker
\* version from the result gives the version that was stamped, for every suffix
\* and every version ("dev" when the package version is unknown).
C6_MarkerRoundTrip ==
    (p_pc = "extracted" /\ ~HasMarker(p_content)) => p_version = TargetVersion
C6_Witness ==
    /\ p_pc = "extracted" /\ ~HasMarker(p_content) /\ Len(p_content) = MaxLen
    /\ version_info = NoneStr /\ p_version = <<"dev">> /\ Suffix(p_filename) = ".ini"

\* the index of the first marker line of a content that has one
FirstMarker(content) ==
    CHOOSE k \in 1..Len(splitlines(content)) :
        /\ IsMarkerLine(splitlines(content)[k])
        /\ \A j \in 1..(k - 1) : ~IsMarkerLine(splitlines(content)[j])
\* C7: stamping a content that has a marker line gives a content with exactly one
\* marker line, the fresh marker standing where the first marker stood.
C7_ExactlyOneMarker ==
    (p_pc \in {"stamped", "extracted"} /\ HasMarker(p_content))
        => /\ MarkerCount(p_stamped) = 1
           /\ splitlines(p_stamped)[FirstMarker(p_content)] = strip(VersionLine(p_filename))

\* C8: a managed file enters the fallback exactly when its fetch failed; every
\* successful fetch, whatever the body, is stamped and written to cache_path.
C8_FallbackIffFetchFailed ==
    \A c \in Processed :
        /\ Called("use_fallback_config", c) <=> ~FetchOk(c)
        /\ FetchOk(c) =>
               \E k \in 1..Len(log) :
                   /\ log[k].op = "write_text" /\ log[k].path = c.repo_path
                   /\ log[k].text = Stamped(c)

\* the run has not written path, and path holds what it held when the run started
Untouched(path) == ~WritesTo(path) /\ fs[path] = fs0[path]
\* C9: in the fallback, a missing cache_path gives a failed file and an untouched
\* local_path; so does a declined prompt when both files exist; in every other
\* case local_path ends with the content of cache_path and the file is updated.
C9_FallbackOutcome ==
    \A c \in Processed :
        Called("use_fallback_config", c) =>
            IF ~fs0[c.repo_path].exists
            THEN InList(failed_configs, c.name) /\ Untouched(c.local_path)
            ELSE IF fs0[c.local_path].exists /\ Declined(c)
            THEN InList(failed_configs, c.name) /\ Untouched(c.local_path)
            ELSE /\ fs[c.local_path].exists
                 /\ fs[c.local_path].text = fs0[c.repo_path].text
                 /\ InList(updated_configs, c.name)
                 /\ ~InList(failed_configs, c.name)
C9_Witness ==
    /\ pc = "done"
    /\ \E c \in Processed :
         /\ Called("use_fallback_config", c) /\ Prompted(c) /\ ~Declined(c)
         /\ InList(updated_configs, c.name)
    /\ \E c \in Processed :
         /\ Called("use_fallback_config", c) /\ ~fs0[c.repo_path].exists
         /\ InList(failed_configs, c.name)

\* the paths of the configs other than the i-th; the names fetched, in order
OtherPaths(i) ==
    {CONFIGS[j].local_path : j \in 1..Len(CONFIGS) \ {i}}
        \cup {CONFIGS[j].repo_path : j \in 1..Len(CONFIGS) \ {i}}
FetchedNames(l) ==
    LET calls == SelectSeq(l, LAMBDA e : e.op = "fetch_remote_content")
    IN [k \in 1..Len(calls) |-> calls[k].name]
\* C10: whatever happens to one managed file (a failed fetch, a declined prompt, a
\* failure), the run goes on with the next one; the files are processed once each
\* in list order; processing one leaves the paths of the others, and everything
\* their processing reads, as they were.
C10_PerFileIndependence ==
    [][/\ (pc = "running" /\ idx <= Len(CONFIGS)) =>
            /\ pc' = "running" /\ idx' = idx + 1
            /\ FetchedNames(log') = [k \in 1..idx |-> CONFIGS[k].name]
            /\ Len(updated_configs') + Len(unchanged_configs') + Len(failed_configs') = idx
            /\ \A p \in OtherPaths(idx) :
                   /\ fs'[p] = fs[p]
                   /\ \A k \in (Len(log) + 1)..Len(log') : log'[k].path # p
            /\ remote' = remote /\ version_info' = version_info
            /\ auto_confirm' = auto_confirm
       /\ (pc = "running" /\ pc' = "done") =>
            /\ idx = Len(CONFIGS) + 1
            /\ \A i \in 1..Len(CONFIGS) :
                   Cardinality({l \in {"u", "n", "f"} :
                       InList(CASE l = "u" -> updated_configs
                                [] l = "n" -> unchanged_configs
                                [] OTHER -> failed_configs, CONFIGS[i].name)}) = 1
      ]_vars
C10_Witness ==
    /\ pc = "done"
    /\ ~FetchOk(CONFIGS[1]) /\ Declined(CONFIGS[1]) /\ InList(failed_configs, CONFIGS[1].name)
    /\ FetchOk(CONFIGS[2]) /\ InList(unchanged_configs, CONFIGS[2].name)
    /\ fs[CONFIGS[1].local_path] = fs0[CONFIGS[1].local_path]

\* how many times name stands in list
Count(list, name) == Len(SelectSeq(list, LAMBDA n : n = name))
\* C11: after a full run every managed name stands in exactly one of the updated,
\* unchanged and failed lists, exactly once, and the lists hold nothing else.
C11_ExactlyOneList ==
    pc = "done" =>
        /\ \A n \in Names :
               Count(updated_configs, n) + Count(unchanged_configs, n)
                   + Count(failed_configs, n) = 1
        /\ Len(updated_configs) + Len(unchanged_configs) + Len(failed_configs)
               = Cardinality(Names)
C11_Witness ==
    /\ pc = "done"
    /\ updated_configs = <<CONFIGS[2].name>>
    /\ failed_configs = <<CONFIGS[1].name>>
    /\ unchanged_configs = <<>>

\* C12: on every successful fetch the stamped content is written to cache_path,
\* before any prompt and before any write to local_path for that file, and
\* cache_path holds exactly the stamped content when the file's processing ends.
C12_CacheWrittenFirst ==
    \A c \in Processed :
        FetchOk(c) =>
            /\ \E k \in 1..Len(log) :
                   /\ log[k].op = "write_text" /\ log[k].path = c.repo_path
                   /\ log[k].text = Stamped(c)
                   /\ \A j \in 1..(k - 1) :
                          /\ ~(log[j].op = "confirm_action" /\ log[j].name = c.name)
                          /\ ~(log[j].op \in {"write_text", "copy"}
                                  /\ log[j].path = c.local_path)
            /\ fs[c.repo_path] = File(Stamped(c))

\* the confirm_action calls of the current run for c
Prompts(c) ==
    SelectSeq(log, LAMBDA e : e.op = "confirm_action" /\ e.name = c.name)
\* C13: with a successful fetch and local_path present, the file is reported
\* unchanged, with no prompt and no write to local_path, exactly when the local and
\* the stamped content are equal without their marker lines and the local marker
\* version is the target version; otherwise one confirmation is asked (none in
\* batch mode, where it is taken as accepted) and local_path is overwritten with
\* the stamped content exactly when it is accepted.
C13_DecideExisting ==
    \A c \in Processed :
        (FetchOk(c) /\ fs0[c.local_path].exists) =>
            LET local == fs0[c.local_path].text
                same == /\ is_content_identical(local, Stamped(c))
                        /\ extract_version(local) = TargetVersion
                accepted == auto_confirm \/ (Len(Prompts(c)) = 1 /\ Prompts(c)[1].answer)
                overwritten == WritesTo(c.local_path) /\ fs[c.local_path] = File(Stamped(c))
            IN IF same
               THEN /\ InList(unchanged_configs, c.name)
                    /\ Prompts(c) = <<>>
                    /\ ~WritesTo(c.local_path)
               ELSE /\ Len(Prompts(c)) = IF auto_confirm THEN 0 ELSE 1
                    /\ accepted <=> overwritten
                    /\ accepted <=> InList(updated_configs, c.name)

\* the confirm_action calls of the current run for c of the given kind
Refused(c, kind) ==
    \E k \in 1..Len(log) :
        /\ log[k].op = "confirm_action" /\ log[k].name = c.name
        /\ log[k].arg = kind /\ ~log[k].answer
\* C14: when the user declines an update prompt (version-only or content-differs)
\* local_path holds after the run what it held before and the file is reported
\* unchanged; when the user declines the create prompt local_path is still absent
\* and the file is in neither the updated nor the failed list.
C14_RefusalLeavesLocal ==
    \A c \in Processed :
        /\ (Refused(c, "version") \/ Refused(c, "update")) =>
               /\ fs[c.local_path] = fs0[c.local_path]
               /\ InList(unchanged_configs, c.name)
        /\ Refused(c, "create") =>
               /\ ~fs[c.local_path].exists
               /\ ~InList(updated_configs, c.name)
               /\ ~InList(failed_configs, c.name)
\* no run reaches update_existing_config, create_new_config or show_diff:
\* needs_update reads back the file that line 94 has just written
NoDecideStep ==
    \A k \in 1..Len(log) :
        log[k].op \notin {"update_existing_config", "create_new_config", "show_diff"}

\* the local_path of some managed file
LocalPaths == {CONFIGS[i].local_path : i \in 1..Len(CONFIGS)}
\* C15: throughout a run batch mode is on exactly when -y was given or no managed
\* file existed locally when the run started; so in a run without -y that started
\* with a managed file present, every creation or update of a local file comes
\* after an accepted prompt for that file.
C15_BatchModeDecidedOnce ==
    InRun =>
        /\ auto_confirm <=> (skip_confirm \/ \A p \in LocalPaths : ~fs0[p].exists)
        /\ (~skip_confirm /\ \E p \in LocalPaths : fs0[p].exists) =>
               \A k \in 1..Len(log) :
                   (log[k].op \in {"write_text", "copy"} /\ log[k].path \in LocalPaths)
                       => \E j \in 1..(k - 1) :
                              /\ log[j].op = "confirm_action" /\ log[j].name = log[k].name
                              /\ log[j].answer

ConfigNamed(n) == CHOOSE c \in {CONFIGS[i] : i \in 1..Len(CONFIGS)} : c.name = n
\* C16: every display of a diff happens in an interactive run, for a file that
\* existed locally with non-marker content different from the stamped content, at
\* most once per file and directly before the "Update config?" prompt of that
\* file; no diff is displayed for a file whose change is version-only, that did
\* not exist locally, or that went through the fallback.
C16_DiffOnlyBeforeUpdatePrompt ==
    /\ \A k \in 1..Len(log) :
           log[k].op = "show_diff" =>
               LET c == ConfigNamed(log[k].name)
               IN /\ ~auto_confirm
                  /\ FetchOk(c) /\ fs0[c.local_path].exists
                  /\ ~is_content_identical(fs0[c.local_path].text, Stamped(c))
                  /\ \A j \in 1..Len(log) :
                         (log[j].op = "show_diff" /\ log[j].name = c.name) => j = k
                  /\ k < Len(log)
                  /\ log[k + 1].op = "confirm_action" /\ log[k + 1].name = c.name
                  /\ log[k + 1].arg = "update"
    /\ \A c \in Processed :
           (VersionOnly(c) \/ ~fs0[c.local_path].exists \/ Called("use_fallback_config", c))
               => ~Called("show_diff", c)
\* an interactive run with a fallback prompt for one file and a version-only
\* change of another
C16_Witness ==
    /\ InRun /\ ~auto_confirm
    /\ \E c \in Processed : Called("use_fallback_config", c) /\ Prompted(c)
    /\ \E d \in Processed : VersionOnly(d)

\* the writes and copies the current run has made while processing c
WritesFor(c) ==
    SelectSeq(log, LAMBDA e : e.op \in {"write_text", "copy"} /\ e.name = c.name)
\* C17: for a processed file whose stamped content was written to the cache,
\* local_path and the cache path are different files, and when that cache write
\* is the only write made for the file, local_path exists or not, and holds, what
\* it did when the run started.
C17_CacheWriteLeavesLocal ==
    \A c \in Processed :
        (WritesFor(c) # <<>> /\ WritesFor(c)[1].op = "write_text"
                             /\ WritesFor(c)[1].path = c.repo_path)
            => /\ c.local_path # c.repo_path
               /\ Len(WritesFor(c)) = 1 => fs[c.local_path] = fs0[c.local_path]

EndsNL(content) == content # <<>> /\ content[Len(content)] = NL
\* C18: for every content and file name, the non-marker lines of the stamped
\* text are those of the content (after one blank line when the marker was
\* prepended), and the stamped text ends with a newline exactly when the content
\* does.
C18_StampChangesOnlyMarker ==
    p_pc \in {"stamped", "extracted"} =>
        /\ NonMarkerLines(p_stamped) =
               IF HasMarker(p_content) THEN NonMarkerLines(p_content)
               ELSE <<<<>>>> \o NonMarkerLines(p_content)
        /\ EndsNL(p_stamped) <=> EndsNL(p_content)

\* C19: a processed file that is in the updated list exists at local_path, and
\* its content there equals the content of its cached copy.
C19_UpdatedMatchesCache ==
    \A c \in Processed :
        InList(updated_configs, c.name)
            => /\ fs[c.local_path].exists /\ fs[c.repo_path].exists
               /\ fs[c.local_path].text = fs[c.repo_path].text
\* a file reported updated after the user accepted the fallback's overwrite
C19_Witness ==
    \E c \in Processed :
        /\ InList(updated_configs, c.name) /\ Called("use_fallback_config", c)
        /\ Prompted(c) /\ ~Declined(c)
        /\ fs[c.local_path].exists

====
